---------------------------- MODULE Spec2Model ----------------------------
(***************************************************************************)
(* VoiceClient (frontend/src/components/VoiceClient.tsx) as a state        *)
(* machine: the three React state hooks, the render that shows them, the   *)
(* PipecatClient callbacks, handleConnect / handleDisconnect, the          *)
(* effect's mount and cleanup, and the Connect button.  The three          *)
(* versions of the component kept in the repository are modelled side by   *)
(* side (variant).  The PipecatClient / WebSocketTransport library is the   *)
(* environment: a session that is closed, opening or open.                 *)
(***************************************************************************)
EXTENDS Naturals, Sequences, FiniteSets

\* ------------------------------------------------------------- bounds
\* Longest run of consecutive server messages recorded in inbox.
MaxInbox == 3

\* ------------------------------------------------------------- values
\* The versions of the component: final, draft with form, first draft.
Variants == {"part_000", "part_001", "part_002"}

ConnectionState == {"idle", "connecting", "connected", "error"}

\* JavaScript's undefined, where a string is expected.
Undefined == "undefined"

FormField(n) == [name |-> n, label |-> n, type |-> "text"]

\* formFields: FormField[] | null; undefined is what a payload without
\* `fields` stores (setFormFields(payload.fields)).
Null == [kind |-> "null", fields |-> <<>>]
UndefinedFields == [kind |-> "undefined", fields |-> <<>>]
Fields(fs) == [kind |-> "fields", fields |-> fs]

FieldSeqs ==
    { <<FormField("email")>>,
      <<FormField("phone"), FormField("email")>> }

\* fields.map(field => field.name): the names of a form's fields.
FieldNames(ff) == { ff.fields[i].name : i \in DOMAIN ff.fields }

\* formValues: Record<string, string>; {} is the empty mapping.
EmptyValues == [k \in {} |-> ""]

UpdateNames == {"email", "zip"}
UpdateValues == {"a@b.com", "x"}

\* ----------------------------------------------------------- messages
\* A server message { type, payload }.  hasPayload = FALSE is a message
\* without payload; fields / field_name / field_value are what reading the
\* property of the payload returns (undefined when it is missing).
Message(t, hp, fs, n, v) ==
    [type |-> t, hasPayload |-> hp, fields |-> fs, field_name |-> n, field_value |-> v]

NoMessage == Message("", FALSE, UndefinedFields, Undefined, Undefined)

OpenFormMessages ==
    { Message("open_form", TRUE, Fields(fs), Undefined, Undefined) : fs \in FieldSeqs }
UpdateFieldMessages ==
    { Message("update_field", TRUE, UndefinedFields, n, v) : n \in UpdateNames, v \in UpdateValues }
SubmitFormMessages == { Message("submit_form", TRUE, UndefinedFields, Undefined, Undefined) }
ValidMessages == OpenFormMessages \cup UpdateFieldMessages \cup SubmitFormMessages

\* A type the switch does not know, with and without a payload.
UnknownMessages ==
    { Message("ping", FALSE, UndefinedFields, Undefined, Undefined),
      Message("ping", TRUE, UndefinedFields, "email", "x") }

\* A known type whose payload, or a required property of it, is missing.
MalformedMessages ==
    { Message("open_form", FALSE, UndefinedFields, Undefined, Undefined),
      Message("open_form", TRUE, UndefinedFields, Undefined, Undefined),
      Message("update_field", FALSE, UndefinedFields, Undefined, Undefined),
      Message("update_field", TRUE, UndefinedFields, Undefined, "x"),
      Message("update_field", TRUE, UndefinedFields, "email", Undefined) }

Messages == ValidMessages \cup UnknownMessages \cup MalformedMessages

\* ------------------------------------------------------- React state
VARIABLES
    variant,          \* which version of VoiceClient.tsx runs
    client,           \* client.current: "null" or "set"
    mounted,          \* the component is mounted
    connectionState,  \* useState<ConnectionState>("idle")
    formFields,       \* useState<FormField[] | null>(null)
    formValues,       \* useState<Record<string, string>>({})
    rendered,         \* the connectionState of the last render (what the button shows)
    session,          \* the library's transport session: closed, opening, open
    orphaned,         \* a connect() promise is pending whose attempt was closed
    last,             \* the handler that ran last, its message, whether it threw
    prev,             \* the state that handler started from
    clickedAt,        \* what the button showed when it was last clicked
    inbox,            \* a recorded run of server messages, in arrival order
    base              \* the state the first message of inbox was handled in

vars == <<variant, client, mounted, connectionState, formFields, formValues,
          rendered, session, orphaned, last, prev, clickedAt, inbox, base>>

\* The three hooks as one value.
State(cs, ff, fv) == [connectionState |-> cs, formFields |-> ff, formValues |-> fv]

\* The hooks' values with every setter call so far applied, in call order.
Current == State(connectionState, formFields, formValues)

\* ------------------------------------------------------------ setters
setConnectionState(st, s) == [st EXCEPT !.connectionState = s]
setFormFields(st, f) == [st EXCEPT !.formFields = f]
setFormValues(st, m) == [st EXCEPT !.formValues = m]

\* {...prevValues, [k]: v}
Spread_DropsRest(prevValues, k, v) == [x \in {k} |-> v]
Spread(prevValues, k, v) ==
    [x \in (DOMAIN prevValues) \cup {k} |-> IF x = k THEN v ELSE prevValues[x]]

\* setFormValues(prevValues => ({...prevValues, [k]: v})): React hands the
\* updater the value the earlier setter calls left.
setFormValuesFn_Toggles(st, k, v) ==
    [st EXCEPT !.formValues =
        IF k \in DOMAIN st.formValues
        THEN [x \in (DOMAIN st.formValues) \ {k} |-> st.formValues[x]]
        ELSE Spread(st.formValues, k, v)]
setFormValuesFn(st, k, v) == [st EXCEPT !.formValues = Spread(st.formValues, k, v)]

Handled(op, m, threw) == [op |-> op, msg |-> m, threw |-> threw]

\* A handler ran and left the hooks at st; a setter called on an unmounted
\* component does nothing.
Applied(op, m, threw, st) ==
    /\ connectionState' = IF mounted THEN st.connectionState ELSE connectionState
    /\ formFields' = IF mounted THEN st.formFields ELSE formFields
    /\ formValues' = IF mounted THEN st.formValues ELSE formValues
    /\ last' = Handled(op, m, threw)
    /\ prev' = Current

\* ... outside a run of messages that is being recorded.
Ran(op, m, threw, st) == Applied(op, m, threw, st) /\ UNCHANGED <<inbox, base>>

\* ----------------------------------------------------------- Init
Init ==
    /\ variant \in Variants
    /\ client = "null"
    /\ mounted = TRUE
    /\ connectionState = "idle"
    /\ formFields = Null
    /\ formValues = EmptyValues
    /\ rendered = "idle"
    /\ session = "closed"
    /\ orphaned = FALSE
    /\ last = Handled("init", NoMessage, FALSE)
    /\ prev = State("idle", Null, EmptyValues)
    /\ clickedAt = "none"
    /\ inbox = <<>>
    /\ base = State("idle", Null, EmptyValues)

\* ------------------------------------------------ PipecatClient callbacks
\* onConnected: () => setConnectionState("connected")
onConnected(st) == setConnectionState(st, "connected")

\* onDisconnected: the first draft only sets the state, the later versions
\* also clear the form.
onDisconnected_KeepsForm(st) == setConnectionState(st, "idle")
onDisconnected(st) ==
    IF variant = "part_002"
    THEN setConnectionState(st, "idle")
    ELSE setFormValues(setFormFields(setConnectionState(st, "idle"), Null), EmptyValues)

\* onError: () => setConnectionState("error")
onError(st) == setConnectionState(st, "error")

\* onServerMessage reads payload.fields / payload.field_name before any
\* setter: with no payload that read throws a TypeError.
onServerMessageThrows(m) ==
    /\ m.type \in {"open_form", "update_field"}
    /\ ~m.hasPayload

\* case "open_form": setFormFields(payload.fields); setFormValues({});
openForm_KeepsValues(st, m) == setFormFields(st, m.fields)
openForm(st, m) == setFormValues(setFormFields(st, m.fields), EmptyValues)

\* case "update_field": setFormValues(prevValues => ({...prevValues,
\* [payload.field_name]: payload.field_value})).  A computed key is the
\* property's string form ("undefined" when it is missing).
updateField_StaleClosure(st, m) ==
    setFormValues(st, Spread(EmptyValues, m.field_name, m.field_value))
updateField_OnlyKnownFields(st, m) ==
    IF m.field_name \in FieldNames(st.formFields)
    THEN setFormValuesFn(st, m.field_name, m.field_value)
    ELSE st
updateField(st, m) == setFormValuesFn(st, m.field_name, m.field_value)

\* case "submit_form": setFormFields(null); setFormValues({});
submitForm_KeepsValues(st, m) == setFormFields(st, Null)
submitForm(st, m) == setFormValues(setFormFields(st, Null), EmptyValues)

\* default: console.log("Unknown message type:", ...) (the draft has no
\* default branch: nothing runs).
unknownType_FallsIntoSubmit(st, m) == setFormValues(setFormFields(st, Null), EmptyValues)
unknownType(st, m) == st

\* onServerMessage: the switch on message.type.
onServerMessage(st, m) ==
    IF onServerMessageThrows(m) THEN st
    ELSE CASE m.type = "open_form" -> openForm(st, m)
           [] m.type = "update_field" -> updateField(st, m)
           [] m.type = "submit_form" -> submitForm(st, m)
           [] OTHER -> unknownType(st, m)

\* handleConnect's catch block: only the final version sets "error".
catchConnect(st) ==
    IF variant = "part_000" THEN setConnectionState(st, "error") ELSE st

\* ------------------------------------------------------------ lifecycle
\* useEffect(() => { client.current = new PipecatClient(...) }, [])
Mount ==
    /\ mounted
    /\ client = "null"
    /\ client' = "set"
    /\ UNCHANGED <<variant, mounted, connectionState, formFields, formValues,
                   rendered, session, orphaned, last, prev, clickedAt, inbox, base>>

\* React renders what the setters called from a transport callback left.
Render ==
    /\ mounted
    /\ rendered # connectionState
    /\ rendered' = connectionState
    /\ UNCHANGED <<variant, client, mounted, connectionState, formFields, formValues,
                   session, orphaned, last, prev, clickedAt, inbox, base>>

\* client.disconnect(): closing a live session reports onDisconnected and
\* leaves the promise of an attempt still opening without its attempt;
\* closing a closed session does nothing.
disconnectCallbacks(st) == IF session = "closed" THEN st ELSE onDisconnected(st)

disconnect ==
    /\ session' = "closed"
    /\ orphaned' = (orphaned \/ session = "opening")

\* The effect's cleanup, run when the component unmounts: the component's
\* state is gone, setters called from now on do nothing.
Unmount_NoDisconnect ==
    /\ mounted
    /\ client = "set"
    /\ mounted' = FALSE
    /\ last' = Handled("unmount", NoMessage, FALSE)
    /\ prev' = Current
    /\ UNCHANGED <<variant, client, connectionState, formFields, formValues, rendered,
                   session, orphaned, clickedAt, inbox, base>>
Unmount ==
    /\ mounted
    /\ client = "set"
    /\ mounted' = FALSE
    /\ disconnect
    /\ last' = Handled("unmount", NoMessage, FALSE)
    /\ prev' = Current
    /\ UNCHANGED <<variant, client, connectionState, formFields, formValues, rendered,
                   clickedAt, inbox, base>>

\* --------------------------------------------------------------- handlers
\* const handleConnect = async () => { ... }, up to its await.
handleConnect ==
    \/ /\ client = "null"
       /\ Ran("handleConnect", NoMessage, FALSE, Current)
       /\ UNCHANGED <<session, orphaned>>
    \/ /\ client = "set"
       /\ session = "closed"
       /\ session' = "opening"
       /\ Ran("handleConnect", NoMessage, FALSE, setConnectionState(Current, "connecting"))
       /\ UNCHANGED orphaned
    \/ \* connect() on a session that is not closed: the library rejects the
       \* call at once (the catch block runs), or ignores it.
       /\ client = "set"
       /\ session # "closed"
       /\ \E rejected \in BOOLEAN :
            Ran("handleConnect", NoMessage, rejected,
                IF rejected THEN catchConnect(setConnectionState(Current, "connecting"))
                            ELSE setConnectionState(Current, "connecting"))
       /\ UNCHANGED <<session, orphaned>>

\* const handleDisconnect = () => { client.current?.disconnect(); }
handleDisconnect ==
    IF client = "set"
    THEN disconnect /\ Ran("handleDisconnect", NoMessage, FALSE, disconnectCallbacks(Current))
    ELSE Ran("handleDisconnect", NoMessage, FALSE, Current) /\ UNCHANGED <<session, orphaned>>

isConnected == rendered = "connected"
isConnecting_Never == FALSE
isConnecting == rendered = "connecting"

\* <button onClick={isConnected ? handleDisconnect : handleConnect}
\*         disabled={isConnecting}>
\* React renders the updates of a click before the next event.
ButtonClick_DisconnectWhileConnecting ==
    /\ mounted
    /\ \/ (isConnected \/ isConnecting) /\ handleDisconnect
       \/ ~(isConnected \/ isConnecting) /\ handleConnect
    /\ rendered' = connectionState'
    /\ clickedAt' = rendered
    /\ UNCHANGED <<variant, client, mounted>>
ButtonClick ==
    /\ mounted
    /\ ~isConnecting
    /\ \/ isConnected /\ handleDisconnect
       \/ ~isConnected /\ handleConnect
    /\ rendered' = connectionState'
    /\ clickedAt' = rendered
    /\ UNCHANGED <<variant, client, mounted>>

\* ------------------------------------------------- transport events
\* The pending connect() succeeds: onConnected, and the await returns.
ConnectResolved ==
    /\ session = "opening"
    /\ session' = "open"
    /\ Ran("onConnected", NoMessage, FALSE, onConnected(Current))
    /\ UNCHANGED <<variant, client, mounted, rendered, orphaned, clickedAt>>

\* The pending connect() fails: the promise rejects into the catch block;
\* the library may report onError as well.
ConnectRejected ==
    /\ session = "opening"
    /\ session' = "closed"
    /\ \E reported \in BOOLEAN :
         Ran("connectRejected", NoMessage, reported,
             catchConnect(IF reported THEN onError(Current) ELSE Current))
    /\ UNCHANGED <<variant, client, mounted, rendered, orphaned, clickedAt>>

\* The promise of an attempt closed by disconnect() settles; a rejection
\* runs the catch block.
OrphanSettles ==
    /\ orphaned
    /\ orphaned' = FALSE
    /\ \E rejected \in BOOLEAN :
         Ran("orphanSettled", NoMessage, rejected,
             IF rejected THEN catchConnect(Current) ELSE Current)
    /\ UNCHANGED <<variant, client, mounted, rendered, session, clickedAt>>

\* The transport reports an error on an open session.
TransportError ==
    /\ session = "open"
    /\ Ran("onError", NoMessage, FALSE, onError(Current))
    /\ UNCHANGED <<variant, client, mounted, rendered, session, orphaned, clickedAt>>

\* The open session is closed by the other side.
TransportClosed ==
    /\ session = "open"
    /\ session' = "closed"
    /\ Ran("onDisconnected", NoMessage, FALSE, onDisconnected(Current))
    /\ UNCHANGED <<variant, client, mounted, rendered, orphaned, clickedAt>>

\* A server message arrives on the open session (the first draft registers
\* no onServerMessage).
ServerMessage ==
    /\ session = "open"
    /\ variant # "part_002"
    /\ \E m \in Messages :
         Ran("onServerMessage", m, onServerMessageThrows(m), onServerMessage(Current, m))
    /\ UNCHANGED <<variant, client, mounted, rendered, session, orphaned, clickedAt>>

Next ==
    \/ Mount
    \/ Render
    \/ Unmount
    \/ ButtonClick
    \/ ConnectResolved
    \/ ConnectRejected
    \/ OrphanSettles
    \/ TransportError
    \/ TransportClosed
    \/ ServerMessage

Spec == Init /\ [][Next]_vars

\* --------------------------------------------- a run of server messages
\* A session that has just connected (handleConnect from idle, then
\* onConnected, rendered), in a version that registers onServerMessage.
InitConnected ==
    /\ variant \in {"part_000", "part_001"}
    /\ client = "set"
    /\ mounted = TRUE
    /\ connectionState = "connected"
    /\ formFields = Null
    /\ formValues = EmptyValues
    /\ rendered = "connected"
    /\ session = "open"
    /\ orphaned = FALSE
    /\ last = Handled("onConnected", NoMessage, FALSE)
    /\ prev = State("connecting", Null, EmptyValues)
    /\ clickedAt = "idle"
    /\ inbox = <<>>
    /\ base = State("connected", Null, EmptyValues)

\* Valid server messages arrive one after the other on the open session;
\* the run is recorded, and recording starts again when inbox is full.
ServerMessageRecorded ==
    /\ session = "open"
    /\ variant # "part_002"
    /\ \E m \in ValidMessages :
         /\ Applied("onServerMessage", m, onServerMessageThrows(m), onServerMessage(Current, m))
         /\ IF Len(inbox) < MaxInbox
            THEN inbox' = Append(inbox, m) /\ base' = base
            ELSE inbox' = <<m>> /\ base' = Current
    /\ UNCHANGED <<variant, client, mounted, rendered, session, orphaned, clickedAt>>

SpecMessages == InitConnected /\ [][ServerMessageRecorded]_vars

\* ------------------------------------------------------------- claims
HandledMessage == last.op = "onServerMessage"
FormCleared == formFields = Null /\ formValues = EmptyValues
FormActive(st) == st.formFields.kind = "fields"

\* C1: every step that takes connectionState out of "connected", to "idle"
\* or to "error", leaves formFields null and formValues empty.
C1_LeavingConnectedClearsForm ==
    (prev.connectionState = "connected" /\ connectionState \in {"idle", "error"})
        => FormCleared

\* C2: the state right after handling submit_form has formFields null and
\* formValues empty, whatever the form state was before.
C2_SubmitFormClears ==
    (HandledMessage /\ last.msg \in SubmitFormMessages) => FormCleared

C2_Witness ==
    /\ HandledMessage /\ last.msg \in SubmitFormMessages
    /\ FormActive(prev) /\ prev.formValues # EmptyValues
    /\ FormCleared

\* C3: handling open_form(fields) sets formFields to exactly the received
\* sequence and formValues to the empty mapping, whatever both were before.
C3_OpenFormSetsFieldsAndResets ==
    (HandledMessage /\ last.msg \in OpenFormMessages)
        => /\ formFields.kind = "fields"
           /\ formFields.fields = last.msg.fields.fields
           /\ formValues = EmptyValues

\* values stored before any form was open, then a form of two fields opens
C3_Witness ==
    /\ HandledMessage /\ last.msg \in OpenFormMessages
    /\ prev.formFields = Null /\ prev.formValues # EmptyValues
    /\ Len(formFields.fields) = 2 /\ formFields.fields[1].name = "phone"

\* C4: handling update_field(name, value) leaves formValues equal to the
\* previous mapping with name set to value: name is a key with that value,
\* every other key keeps its value, no other key appears, and formFields
\* is unchanged.
C4_UpdateFieldSetsOneKey ==
    (HandledMessage /\ last.msg \in UpdateFieldMessages)
        => /\ DOMAIN formValues = (DOMAIN prev.formValues) \cup {last.msg.field_name}
           /\ formValues[last.msg.field_name] = last.msg.field_value
           /\ \A k \in (DOMAIN prev.formValues) \ {last.msg.field_name} :
                 formValues[k] = prev.formValues[k]
           /\ formFields = prev.formFields

\* an overwrite, with another key present
C4_Witness ==
    /\ HandledMessage /\ last.msg \in UpdateFieldMessages
    /\ last.msg.field_name \in DOMAIN prev.formValues
    /\ prev.formValues[last.msg.field_name] # last.msg.field_value
    /\ Cardinality(DOMAIN prev.formValues) = 2
    /\ FormActive(prev)

\* C5: update_field is idempotent: handling the message that was just
\* handled once more leaves formFields and formValues as they are.
C5_UpdateFieldIdempotent ==
    (HandledMessage /\ last.msg \in UpdateFieldMessages)
        => LET again == onServerMessage(Current, last.msg)
           IN  /\ again.formFields = formFields
               /\ again.formValues = formValues

\* the same update handled a second time: nothing changed
C5_Witness ==
    /\ HandledMessage /\ last.msg \in UpdateFieldMessages
    /\ prev.formValues = formValues
    /\ Cardinality(DOMAIN formValues) = 2

\* The edges of the connection state machine (section 4.1).
TableEdges ==
    { <<"idle", "connecting">>, <<"connecting", "connected">>, <<"connecting", "error">>,
      <<"connected", "idle">>, <<"connected", "error">>, <<"error", "connecting">> }

\* C6: connectionState is always one of the four states and changes only
\* along the edges of the table.
C6_OnlyTableEdges ==
    /\ connectionState \in ConnectionState
    /\ prev.connectionState # connectionState
          => <<prev.connectionState, connectionState>> \in TableEdges

\* C7: a message whose type is none of open_form, update_field,
\* submit_form changes none of connectionState, formFields, formValues.
C7_UnknownTypeChangesNothing ==
    (HandledMessage /\ last.msg.type \notin {"open_form", "update_field", "submit_form"})
        => Current = prev

C7_Witness ==
    /\ HandledMessage /\ last.msg \in UnknownMessages /\ last.msg.hasPayload
    /\ FormActive(Current) /\ formValues # EmptyValues
    /\ Current = prev

\* C8: a message of a known type whose payload or required payload fields
\* are missing is discarded: no exception, no change of state.
C8_MalformedDiscarded ==
    (HandledMessage /\ last.msg \in MalformedMessages)
        => ~last.threw /\ Current = prev

\* C9: in every version, when the connect() started by handleConnect
\* fails, connectionState becomes "error" and no new attempt is started.
C9_ConnectFailureSetsError ==
    (last.op = "connectRejected")
        => connectionState = "error" /\ session = "closed"

C11_CancelledAttemptChangesNothing ==
    (last.op = "orphanSettled") => Current = prev

\* unmounted while connecting; the attempt's promise then rejects into the
\* catch block of the final version
C11_Witness ==
    /\ last.op = "orphanSettled" /\ last.threw
    /\ variant = "part_000"
    /\ connectionState = "connecting"

\* C12: handleConnect never calls client.connect() on a live session.
C12_NoConnectOnLiveSession ==
    ~(last.op = "handleConnect" /\ session = "open")

\* The transition table of the form reducer (section 4.2).
TableStep(f, m) ==
    CASE m.type = "open_form" ->
            [formFields |-> m.fields, formValues |-> EmptyValues]
      [] m.type = "update_field" ->
            [formFields |-> f.formFields,
             formValues |-> [k \in (DOMAIN f.formValues) \cup {m.field_name} |->
                                IF k = m.field_name THEN m.field_value ELSE f.formValues[k]]]
      [] m.type = "submit_form" ->
            [formFields |-> Null, formValues |-> EmptyValues]

RECURSIVE FoldTable(_, _)
FoldTable(f, ms) ==
    IF ms = <<>> THEN f ELSE FoldTable(TableStep(f, Head(ms)), Tail(ms))

\* C13: after a run of valid messages the form state is the left fold of
\* the transition table over the run, in arrival order, from the state the
\* run started in.
C13_MessagesFoldInOrder ==
    [formFields |-> formFields, formValues |-> formValues]
        = FoldTable([formFields |-> base.formFields, formValues |-> base.formValues], inbox)

\* a form opens and two different fields are updated, nothing rendered between
C13_Witness ==
    /\ Len(inbox) = 3
    /\ inbox[1].type = "open_form"
    /\ inbox[2].type = "update_field" /\ inbox[3].type = "update_field"
    /\ inbox[2].field_name # inbox[3].field_name
    /\ base.formValues # EmptyValues
    /\ Cardinality(DOMAIN formValues) = 2

\* C14: update_field for a name that is not a field of the current form
\* (or with no form open) is stored without error and without changing
\* formFields; open_form discards what was stored.
C14_UnknownFieldStored ==
    /\ (HandledMessage /\ last.msg \in UpdateFieldMessages
          /\ last.msg.field_name \notin FieldNames(prev.formFields))
          => /\ ~last.threw
             /\ last.msg.field_name \in DOMAIN formValues
             /\ formValues[last.msg.field_name] = last.msg.field_value
             /\ formFields = prev.formFields
    /\ (HandledMessage /\ last.msg \in OpenFormMessages
          /\ DOMAIN prev.formValues \notin SUBSET FieldNames(prev.formFields))
          => formValues = EmptyValues

\* "zip" stored while no form is open
C14_Witness ==
    /\ HandledMessage /\ last.msg \in UpdateFieldMessages
    /\ last.msg.field_name = "zip"
    /\ prev.formFields = Null /\ formFields = Null
    /\ "zip" \in DOMAIN formValues

\* C15: while a form is active the keys of formValues are names of its
\* fields.
C15_KeysAreFieldNames ==
    FormActive(Current) => DOMAIN formValues \subseteq FieldNames(formFields)

C19_AttemptResolvesConnecting ==
    /\ (last.op = "onConnected") => connectionState = "connected"
    /\ (last.op = "connectRejected") => connectionState # "connecting"

\* C20: the button is disabled exactly while it shows "connecting"; a click
\* runs handleDisconnect exactly when it shows "connected" and
\* handleConnect otherwise, so handleConnect only starts from "idle" or
\* "error" and handleDisconnect only from "connected".
C20_ButtonGatesHandlers ==
    /\ (last.op = "handleConnect") => clickedAt \in {"idle", "error"}
    /\ (last.op = "handleDisconnect") => clickedAt = "connected"
    /\ clickedAt # "connecting"
    /\ mounted => ((ENABLED ButtonClick) <=> rendered # "connecting")

\* Connect clicked from "error", and the button now disabled
C20_Witness ==
    /\ last.op = "handleConnect" /\ clickedAt = "error"
    /\ mounted /\ rendered = "connecting"
    /\ ~ENABLED ButtonClick

\* {formFields && <FormDisplay fields={formFields} values={formValues} />}:
\* the form is displayed while formFields is an array.
FormDisplayed == mounted /\ formFields.kind = "fields"

\* "Completed: {Object.keys(values).length} of {fields.length} fields"
CompletedCount == Cardinality(DOMAIN formValues)
TotalCount == Len(formFields.fields)

\* C21: whenever the form is displayed, the progress line "Completed: N of
\* M fields" has N <= M.
C21_CompletedAtMostTotal ==
    FormDisplayed => CompletedCount <= TotalCount

=============================================================================
